---- MODULE Spec2Model ----
(***************************************************************************)
(* Model of custom_components/sleep_as_android/__init__.py:                *)
(* SleepAsAndroidInstance, its topic helpers, its sensor registry, its     *)
(* MQTT subscription and its configuration migration.                      *)
(*                                                                         *)
(* Strings are sequences of characters.  A character is a one-letter TLA+  *)
(* string; three letters abbreviate literals whose inner characters the    *)
(* code never looks at:                                                    *)
(*   "D" is the literal DEVICE_MACRO ("{device}"),                         *)
(*   "S" is the literal 'SleepAsAndroid',                                  *)
(*   "U" is the literal "unknown_device".                                  *)
(* "/" is the topic separator, "+" the MQTT single-level wildcard.         *)
(*                                                                         *)
(* A Python call either returns or raises; a result is a record            *)
(* [exc, value] with exc = "none" when the call returned.                  *)
(***************************************************************************)
EXTENDS Integers, Sequences, FiniteSets, TLC

VARIABLES
    options,              \* self._config_entry.options (a dict: a function on its keys)
    data,                 \* self._config_entry.data
    _name,                \* self._name
    _updating,            \* self._updating
    __sensors,            \* self.__sensors: device name -> sensor object
    _subscription_state,  \* self._subscription_state: 0 is None, else the handle
    pc,                   \* position of subscribe_root_topic: "idle" or "awaiting"
    request,              \* the arguments of the pending async_subscribe_topics call
    broker,               \* the messaging client's live subscriptions
    journal,              \* what the session did, in order (logs, announces, forwards)
    created,              \* number of SleepAsAndroidSensor objects constructed
    subscribed,           \* number of subscription handles the client has issued
    calls,                \* number of subscribe_root_topic calls made
    published,            \* number of messages published so far
    fnIn,                 \* inputs of the helper under evaluation
    fnOut                 \* result of the last helper evaluated

vars == <<options, data, _name, _updating, __sensors, _subscription_state, pc,
          request, broker, journal, created, subscribed, calls, published,
          fnIn, fnOut>>

sessionVars == <<options, data, _name, _updating, __sensors, _subscription_state,
                 pc, request, broker, journal, created, subscribed, calls,
                 published>>

-----------------------------------------------------------------------------
(* Bounds *)

MaxTopicLen == 3      \* characters of a raw topic / of a configured template
MaxDeviceLen == 1     \* characters of a device segment of a published topic
MaxPosition == 3      \* largest position handed to the extractor on its own
MaxNameLen == 1       \* characters of a session name handed to the entity-id helpers
MaxOps == 4           \* subscribe_root_topic calls plus published messages in one behaviour

-----------------------------------------------------------------------------
(* Strings *)

RECURSIVE Str(_, _)
\* All strings over the characters cs of length at most n.
Str(cs, n) ==
    IF n = 0 THEN {<<>>}
    ELSE LET shorter == Str(cs, n - 1)
         IN  shorter \cup {Append(s, c) : s \in shorter, c \in cs}

DEVICE_MACRO == <<"D">>
SleepAsAndroid == <<"S">>
unknown_device == <<"U">>

RECURSIVE split(_)
\* str.split('/'): the '/'-delimited segments, always at least one.
split(s) ==
    IF \A i \in 1..Len(s) : s[i] # "/"
    THEN <<s>>
    ELSE LET i == CHOOSE k \in 1..Len(s) :
                      s[k] = "/" /\ \A j \in 1..(k - 1) : s[j] # "/"
         IN  <<SubSeq(s, 1, i - 1)>> \o split(SubSeq(s, i + 1, Len(s)))

RECURSIVE join(_)
\* '/'.join(segments)
join(segs) ==
    IF Len(segs) = 0 THEN <<>>
    ELSE IF Len(segs) = 1 THEN segs[1]
    ELSE segs[1] \o <<"/">> \o join(Tail(segs))

Returned(v) == [exc |-> "none", value |-> v]
Raised(e) == [exc |-> e, value |-> <<>>]

-----------------------------------------------------------------------------
(* Configuration access *)

\* get_from_config: options first, then data, else KeyError.
get_from_config(opts, dat, key) ==
    IF key \in DOMAIN opts THEN Returned(opts[key])
    ELSE IF key \in DOMAIN dat THEN Returned(dat[key])
    ELSE Raised("KeyError")

\* configured_topic: the configured template, or the default one.
configured_topic(opts, dat) ==
    LET r == get_from_config(opts, dat, "topic_template")
    IN  IF r.exc = "none" THEN r.value
        ELSE SleepAsAndroid \o <<"/">> \o DEVICE_MACRO

-----------------------------------------------------------------------------
(* Topic helpers *)

RECURSIVE scan_for_macro(_, _)
\* The loop of device_position_in_topic: count the segments before the first
\* one equal to DEVICE_MACRO; without a match every segment is counted.
scan_for_macro(segs, result) ==
    IF segs = <<>> THEN result
    ELSE IF Head(segs) = DEVICE_MACRO THEN result
    ELSE scan_for_macro(Tail(segs), result + 1)

\* A position that falls back to 0 when no segment is the macro.
position_zero_fallback(opts, dat) ==
    LET segs == split(configured_topic(opts, dat))
        r == scan_for_macro(segs, 0)
    IN  IF r = Len(segs) THEN 0 ELSE r

\* A position that counts from 1.
position_from_one(opts, dat) ==
    scan_for_macro(split(configured_topic(opts, dat)), 1)

\* device_position_in_topic (0-based).
device_position_in_topic(opts, dat) ==
    scan_for_macro(split(configured_topic(opts, dat)), 0)

\* An extractor that reads the segment after the requested one.
extract_next_segment(topic, position) ==
    LET s == split(topic)
    IN  IF position + 1 < Len(s) THEN Returned(s[position + 2])
        ELSE Raised("IndexError")

\* device_name_from_topic_and_position: s[position] on a list raises
\* IndexError when position >= len(s); the handler catches KeyError only, so
\* the IndexError leaves the function.  position is never negative.
device_name_from_topic_and_position(topic, position) ==
    LET s == split(topic)
    IN  IF position < Len(s) THEN Returned(s[position + 1])
        ELSE Raised("IndexError")

\* device_name_from_topic
device_name_from_topic(opts, dat, topic) ==
    device_name_from_topic_and_position(topic, device_position_in_topic(opts, dat))

\* topic_template: the configured template with the segment at the device
\* position replaced by '+'; the list assignment raises IndexError when the
\* position is past the last segment.
topic_template(opts, dat) ==
    LET splitted == split(configured_topic(opts, dat))
        p == device_position_in_topic(opts, dat)
    IN  IF p < Len(splitted)
        THEN Returned(join([splitted EXCEPT ![p + 1] = <<"+">>]))
        ELSE Raised("IndexError")

-----------------------------------------------------------------------------
(* Entity ids *)

\* An entity id without the "_" between name and device.
create_entity_id_no_separator(nm, device_name) == nm \o device_name

\* create_entity_id
create_entity_id(nm, device_name) == nm \o <<"_">> \o device_name

\* str.replace(old, "", 1): s without its leftmost occurrence of old.
replace_first(s, old) ==
    LET hits == {i \in 1..(Len(s) - Len(old) + 1) :
                    SubSeq(s, i, i + Len(old) - 1) = old}
    IN  IF old = <<>> \/ hits = {} THEN s
        ELSE LET i == CHOOSE k \in hits : \A j \in hits : k <= j
             IN  SubSeq(s, 1, i - 1) \o SubSeq(s, i + Len(old), Len(s))

\* device_name_from_entity_id
device_name_from_entity_id(nm, entity_id) == replace_first(entity_id, nm \o <<"_">>)

-----------------------------------------------------------------------------
(* Sensor registry and message handler.  self is the part of the instance   *)
(* the handler reads and writes: options, data, sensors, journal, created.  *)

Entry(ev, dev, sensor, msg, sub, info) ==
    [ev |-> ev, dev |-> dev, sensor |-> sensor, msg |-> msg, sub |-> sub,
     info |-> info]

\* SleepAsAndroidSensor(hass, config_entry, sensor_name): a new object; id is
\* its identity.
SleepAsAndroidSensor(id, sensor_name) == [id |-> id, name |-> sensor_name]

\* A get_sensor that constructs and stores a new sensor on every call.
get_sensor_always_new(self, sensor_name) ==
    LET new_sensor == SleepAsAndroidSensor(self.created + 1, sensor_name)
        others == DOMAIN self.sensors \ {sensor_name}
    IN  [self |-> [self EXCEPT
                      !.sensors = [d \in others \cup {sensor_name} |->
                                      IF d = sensor_name THEN new_sensor
                                      ELSE self.sensors[d]],
                      !.created = self.created + 1],
         sensor |-> new_sensor,
         is_new |-> \A d \in DOMAIN self.sensors : d # sensor_name]

\* get_sensor: the stored sensor and False, or a new stored sensor and True.
get_sensor(self, sensor_name) ==
    IF sensor_name \in DOMAIN self.sensors
    THEN [self |-> self, sensor |-> self.sensors[sensor_name], is_new |-> FALSE]
    ELSE LET new_sensor == SleepAsAndroidSensor(self.created + 1, sensor_name)
         IN  [self |-> [self EXCEPT
                           !.sensors = [d \in DOMAIN self.sensors \cup {sensor_name} |->
                                           IF d = sensor_name THEN new_sensor
                                           ELSE self.sensors[d]],
                           !.created = self.created + 1,
                           !.journal = Append(@, Entry("new_device", sensor_name,
                                                       self.created + 1, 0, 0, "info"))],
              sensor |-> new_sensor,
              is_new |-> TRUE]

\* The outcome of target_sensor.process_message(msg) as the handler sees it.
process_outcome(fails) == IF fails THEN "NoEntitySpecifiedError" ELSE "ok"

\* A handler that forwards the message first and announces afterwards.
message_received_forward_first(self, msg, sub, fails) ==
    LET dn == device_name_from_topic(self.options, self.data, msg.topic)
    IN  IF dn.exc # "none"
        THEN [self EXCEPT !.journal =
                  Append(@, Entry("raise", <<>>, 0, msg.id, sub, dn.exc))]
        ELSE LET g == get_sensor(self, dn.value)
                 forwarded == Append(g.self.journal,
                                  Entry("process", dn.value, g.sensor.id, msg.id, sub,
                                        process_outcome(fails)))
             IN  [g.self EXCEPT !.journal =
                     IF g.is_new
                     THEN Append(forwarded,
                              Entry("announce", dn.value, g.sensor.id, msg.id, sub, "ok"))
                     ELSE forwarded]

\* A handler that announces the target sensor on every message.
message_received_announce_always(self, msg, sub, fails) ==
    LET dn == device_name_from_topic(self.options, self.data, msg.topic)
    IN  IF dn.exc # "none"
        THEN [self EXCEPT !.journal =
                  Append(@, Entry("raise", <<>>, 0, msg.id, sub, dn.exc))]
        ELSE LET g == get_sensor(self, dn.value)
                 announced == Append(g.self.journal,
                                  Entry("announce", dn.value, g.sensor.id, msg.id, sub, "ok"))
             IN  [g.self EXCEPT !.journal =
                     Append(announced,
                         Entry("process", dn.value, g.sensor.id, msg.id, sub,
                               process_outcome(fails)))]

\* A handler that lets NoEntitySpecifiedError of process_message escape.
message_received_propagates(self, msg, sub, fails) ==
    LET dn == device_name_from_topic(self.options, self.data, msg.topic)
    IN  IF dn.exc # "none"
        THEN [self EXCEPT !.journal =
                  Append(@, Entry("raise", <<>>, 0, msg.id, sub, dn.exc))]
        ELSE LET g == get_sensor(self, dn.value)
                 announced == IF g.is_new
                              THEN Append(g.self.journal,
                                       Entry("announce", dn.value, g.sensor.id,
                                             msg.id, sub, "ok"))
                              ELSE g.self.journal
             IN  [g.self EXCEPT !.journal =
                     Append(announced,
                         IF fails
                         THEN Entry("raise", dn.value, g.sensor.id, msg.id, sub,
                                    "NoEntitySpecifiedError")
                         ELSE Entry("process", dn.value, g.sensor.id, msg.id, sub,
                                    "ok"))]

\* message_received: one run of the callback for message msg, invoked for
\* subscription sub.  An exception of device_name_from_topic leaves the
\* callback before get_sensor; NoEntitySpecifiedError of process_message is
\* swallowed.
message_received(self, msg, sub, fails) ==
    LET dn == device_name_from_topic(self.options, self.data, msg.topic)
    IN  IF dn.exc # "none"
        THEN [self EXCEPT !.journal =
                  Append(@, Entry("raise", <<>>, 0, msg.id, sub, dn.exc))]
        ELSE LET g == get_sensor(self, dn.value)
                 announced == IF g.is_new
                              THEN Append(g.self.journal,
                                       Entry("announce", dn.value, g.sensor.id,
                                             msg.id, sub, "ok"))
                              ELSE g.self.journal
             IN  [g.self EXCEPT !.journal =
                     Append(announced,
                         Entry("process", dn.value, g.sensor.id, msg.id, sub,
                               process_outcome(fails)))]

-----------------------------------------------------------------------------
(* Configuration migration *)

\* A self_update that writes topic_template only when it found a legacy field.
self_update_without_template(opts, dat, nm) ==
    LET kept == "name" \in DOMAIN opts /\ "qos" \in DOMAIN opts
        base == [name |-> IF kept THEN opts["name"] ELSE nm,
                 qos |-> IF kept THEN opts["qos"] ELSE 0]
    IN  IF "root_topic" \in DOMAIN opts
        THEN [name |-> base.name, qos |-> base.qos,
              topic_template |-> opts["root_topic"] \o <<"/">> \o DEVICE_MACRO]
        ELSE IF "topic" \in DOMAIN opts
        THEN LET s == split(opts["topic"])
             IN  [name |-> base.name, qos |-> base.qos,
                  topic_template |->
                      join(SubSeq(s, 1, Len(s) - 1)) \o <<"/">> \o DEVICE_MACRO]
        ELSE base

\* self_update: the options written through async_update_entry.
self_update(opts, dat, nm) ==
    LET kept == "name" \in DOMAIN opts /\ "qos" \in DOMAIN opts
        new_topic ==
            IF "root_topic" \in DOMAIN opts
            THEN opts["root_topic"] \o <<"/">> \o DEVICE_MACRO
            ELSE IF "topic" \in DOMAIN opts
            THEN LET s == split(opts["topic"])
                 IN  join(SubSeq(s, 1, Len(s) - 1)) \o <<"/">> \o DEVICE_MACRO
            ELSE configured_topic(opts, dat)
    IN  [name |-> IF kept THEN opts["name"] ELSE nm,
         qos |-> IF kept THEN opts["qos"] ELSE 0,
         topic_template |-> new_topic]

-----------------------------------------------------------------------------
(* The messaging client *)

\* Whether a subscription to the wildcard topic wild receives topic.
matches(wild, topic) ==
    LET w == split(wild)
        t == split(topic)
    IN  /\ Len(w) = Len(t)
        /\ \A i \in 1..Len(w) : w[i] = <<"+">> \/ w[i] = t[i]

\* subscription.async_subscribe_topics(hass, prior, topics) when the client
\* accepts: the subscription of the prior state (0: None) is released and a
\* new one with the given handle is live.
async_subscribe_topics(brk, prior, req, handle) ==
    {s \in brk : s.id # prior} \cup {[id |-> handle, topic |-> req.topic, qos |-> req.qos]}

\* The device names published messages carry.
DeviceChars == {"S"}
Devices == Str(DeviceChars, MaxDeviceLen)

\* The topics a live subscription receives: its wildcard topic with a device
\* name in the place of '+'.
received_topics(sub) ==
    LET w == split(sub.topic)
    IN  {join([i \in 1..Len(w) |-> IF w[i] = <<"+">> THEN d ELSE w[i]]) : d \in Devices}

\* The same call when the client rejects the request: the prior subscription
\* is released and nothing replaces it.
async_subscribe_topics_rejected(brk, prior) == {s \in brk : s.id # prior}

RECURSIVE run_callbacks(_, _, _, _)
\* The client invokes the callback of every matching live subscription, one
\* after the other.
run_callbacks(self, subs, msg, fails) ==
    IF subs = {} THEN self
    ELSE LET s == CHOOSE x \in subs : \A y \in subs : x <= y
         IN  run_callbacks(message_received(self, msg, s, fails[s]),
                           subs \ {s}, msg, fails)

-----------------------------------------------------------------------------
(* Inputs *)

\* Zero or one value of S: a key that is absent, or present with that value.
Maybe(S) == {{}} \cup {{v} : v \in S}

\* The dict with the keys of m whose value is present.
Dict(m) == [k \in {x \in DOMAIN m : m[x] # {}} |-> CHOOSE v \in m[k] : TRUE]


DataNames == {<<"n">>}
DataQos == {1}
DataTemplates == {<<"D">>, <<"S">>}
OptionTemplates == {<<"D", "/", "S">>}
RootTopics == {<<"S">>}
LegacyTopics == {<<"S">>}

NoRequest == [topic |-> <<>>, qos |-> 0, prior |-> 0]
NoInput == [kind |-> "none", topic |-> <<>>, topic2 |-> <<>>, position |-> 0,
            opts |-> <<>>, dat |-> <<>>, name |-> <<>>]
NoOutput == [fn |-> "none", position |-> 0, r1 |-> Returned(<<>>), r2 |-> Returned(<<>>)]

-----------------------------------------------------------------------------
(* The session *)

\* A flag raised only when the template is in neither options nor data.
updating_when_unresolved(opts, dat) ==
    get_from_config(opts, dat, "topic_template").exc # "none"

\* The flag __init__ computes: options['topic_template'] raises KeyError.
updating_at_start(opts, dat) == "topic_template" \notin DOMAIN opts

\* __init__: the instance built for a config entry.
Constructed(opts, dat) ==
    /\ options = opts
    /\ data = dat
    /\ _name = LET r == get_from_config(opts, dat, "name")
               IN  IF r.exc = "none" THEN r.value ELSE SleepAsAndroid
    /\ _updating = updating_at_start(opts, dat)
    /\ __sensors = <<>>
    /\ _subscription_state = 0
    /\ pc = "idle"
    /\ request = NoRequest
    /\ broker = {}
    /\ journal = <<>>
    /\ created = 0
    /\ subscribed = 0
    /\ calls = 0
    /\ published = 0

Init ==
    /\ \E n \in Maybe(DataNames), q \in Maybe(DataQos), t \in Maybe(DataTemplates),
          ot \in Maybe(OptionTemplates), rt \in Maybe(RootTopics),
          lt \in Maybe(LegacyTopics) :
          Constructed(Dict([topic_template |-> ot,
                            root_topic |-> rt, topic |-> lt]),
                      Dict([name |-> n, qos |-> q, topic_template |-> t]))
    /\ fnIn = NoInput
    /\ fnOut = NoOutput

\* subscribe_root_topic up to its await: the debug line evaluates
\* topic_template, the state is reset to None, and the request is built from
\* the reset state, topic_template and data['qos'].  An exception of either
\* evaluation leaves the coroutine.  One call is in flight at a time.
SubscribeCall ==
    /\ pc = "idle"
    /\ calls + published < MaxOps
    /\ calls' = calls + 1
    /\ LET tt == topic_template(options, data)
           state_after_reset == 0
       IN  IF tt.exc # "none"
           THEN /\ journal' = Append(journal,
                                  Entry("subscribe_raise", <<>>, 0, 0, 0, tt.exc))
                /\ UNCHANGED <<_subscription_state, pc, request>>
           ELSE IF "qos" \notin DOMAIN data
           THEN /\ _subscription_state' = state_after_reset
                /\ journal' = journal \o
                                  <<Entry("subscribing", <<>>, 0, 0, 0, "debug"),
                                    Entry("subscribe_raise", <<>>, 0, 0, 0, "KeyError")>>
                /\ UNCHANGED <<pc, request>>
           ELSE /\ _subscription_state' = state_after_reset
                /\ request' = [topic |-> tt.value, qos |-> data["qos"],
                               prior |-> state_after_reset]
                /\ pc' = "awaiting"
                /\ journal' = Append(journal,
                                  Entry("subscribing", <<>>, 0, 0, 0, "debug"))
    /\ UNCHANGED <<options, data, _name, _updating, __sensors, broker, created,
                   subscribed, published, fnIn, fnOut>>

\* The await returns a subscription state: the client has released the
\* subscription of the state it was handed and holds the new one.
SubscribeDone ==
    /\ pc = "awaiting"
    /\ subscribed' = subscribed + 1
    /\ broker' = async_subscribe_topics(broker, request.prior, request, subscribed + 1)
    /\ _subscription_state' = subscribed + 1
    /\ journal' = Append(journal, Entry("subscribe_done", <<>>, 0, 0, subscribed + 1, "debug"))
    /\ pc' = "idle"
    /\ request' = NoRequest
    /\ UNCHANGED <<options, data, _name, _updating, __sensors, created, calls,
                   published, fnIn, fnOut>>

\* The client rejects the request: the await returns None and the critical
\* line, which evaluates topic_template again, is logged.
SubscribeRejected ==
    /\ pc = "awaiting"
    /\ broker' = async_subscribe_topics_rejected(broker, request.prior)
    /\ _subscription_state' = 0
    /\ LET tt == topic_template(options, data)
       IN  journal' = Append(journal,
               IF tt.exc = "none"
               THEN Entry("subscribe_critical", <<>>, 0, 0, 0, "critical")
               ELSE Entry("subscribe_raise", <<>>, 0, 0, 0, tt.exc))
    /\ pc' = "idle"
    /\ request' = NoRequest
    /\ UNCHANGED <<options, data, _name, _updating, __sensors, created,
                   subscribed, calls, published, fnIn, fnOut>>

\* A message is published on topic: the client runs the callback of every
\* live subscription the topic matches.
Publish ==
    /\ calls + published < MaxOps
    /\ \E topic \in UNION {received_topics(s) : s \in broker} :
          LET subs == {s.id : s \in {x \in broker : matches(x.topic, topic)}}
          IN  /\ subs # {}
              /\ \E fails \in [subs -> BOOLEAN] :
                    LET self == [options |-> options, data |-> data,
                                 sensors |-> __sensors, journal |-> journal,
                                 created |-> created]
                        msg == [id |-> published + 1, topic |-> topic]
                        after == run_callbacks(self, subs, msg, fails)
                    IN  /\ __sensors' = after.sensors
                        /\ journal' = after.journal
                        /\ created' = after.created
    /\ published' = published + 1
    /\ UNCHANGED <<options, data, _name, _updating, _subscription_state, pc,
                   request, broker, subscribed, calls, fnIn, fnOut>>

\* self_update: the new options replace the old ones, the flag is cleared.
SelfUpdate ==
    /\ options' = self_update(options, data, _name)
    /\ _updating' = FALSE
    /\ UNCHANGED <<data, _name, __sensors, _subscription_state, pc, request,
                   broker, journal, created, subscribed, calls, published,
                   fnIn, fnOut>>

Next ==
    \/ SubscribeCall
    \/ SubscribeDone
    \/ SubscribeRejected
    \/ Publish
    \/ SelfUpdate

Spec == Init /\ [][Next]_vars

-----------------------------------------------------------------------------
(* The helpers on their own: the inputs are drawn at the start and each     *)
(* evaluation applies one helper to them.  Topics and templates are not     *)
(* empty.                                                                   *)

RawChars == {"/", "a", "b"}
RawTopics == Str(RawChars, MaxTopicLen) \ {<<>>}
TemplateChars == {"/", "a", "D"}
Templates == Str(TemplateChars, MaxTopicLen) \ {<<>>}
LegacyChars == {"/", "a", "D"}
LegacyStrings == Str(LegacyChars, MaxTopicLen) \ {<<>>}

ExtractInputs ==
    {[kind |-> "extract", topic |-> t, topic2 |-> t2, position |-> p,
      opts |-> <<>>, dat |-> <<>>, name |-> <<>>] :
        t \in RawTopics, t2 \in RawTopics, p \in 0..MaxPosition}

DeriveInputs ==
    {[kind |-> "derive", topic |-> <<>>, topic2 |-> <<>>, position |-> 0,
      opts |-> Dict([topic_template |-> ot]), dat |-> Dict([topic_template |-> t]),
      name |-> <<>>] :
        ot \in Maybe(Templates), t \in Maybe({<<"a", "/", "D">>})}

\* The legacy fields of old options: with a root_topic present the legacy
\* topic is not read, so one value stands for it.
LegacyPairs ==
    {<<rt, lt>> : rt \in Maybe(LegacyStrings), lt \in Maybe({<<"a", "/", "a">>})}
        \cup {<<{}, lt>> : lt \in Maybe(LegacyStrings)}

\* Old options handed to self_update.  name is self._name of the session
\* holding these options: the name of the options when they have one.
MigrateInputs ==
    {[kind |-> "migrate", topic |-> <<>>, topic2 |-> <<>>, position |-> 0,
      opts |-> Dict([name |-> on, qos |-> oq, topic_template |-> ot,
                     root_topic |-> lp[1], topic |-> lp[2]]),
      dat |-> Dict([topic_template |-> t]),
      name |-> IF on # {} THEN CHOOSE v \in on : TRUE ELSE nm] :
        on \in Maybe({<<"m">>}), oq \in Maybe({2}), ot \in Maybe({<<"D", "/", "a">>}),
        lp \in LegacyPairs,
        t \in Maybe({<<"a", "/", "D">>, <<"a">>}), nm \in {SleepAsAndroid, <<"n">>}}

NameChars == {"n", "_"}
Names == Str(NameChars, MaxNameLen) \ {<<>>}
EntityChars == {"n", "_", "a"}
EntityStrings == Str(EntityChars, MaxTopicLen)

\* A session name and a device name.
EntityInputs ==
    {[kind |-> "entity", topic |-> d, topic2 |-> <<>>, position |-> 0,
      opts |-> <<>>, dat |-> <<>>, name |-> nm] :
        d \in EntityStrings, nm \in Names}

\* A session name and an entity id of any shape.
StripInputs ==
    {[kind |-> "strip", topic |-> e, topic2 |-> <<>>, position |-> 0,
      opts |-> <<>>, dat |-> <<>>, name |-> nm] :
        e \in EntityStrings, nm \in Names}

InitFn ==
    /\ Constructed(<<>>, <<>>)
    /\ fnIn \in ExtractInputs \cup DeriveInputs \cup MigrateInputs
                \cup EntityInputs \cup StripInputs
    /\ fnOut = NoOutput

EvalExtract ==
    /\ fnIn.kind = "extract"
    /\ fnOut = NoOutput
    /\ fnOut' = [fn |-> "device_name_from_topic_and_position",
                 position |-> fnIn.position,
                 r1 |-> device_name_from_topic_and_position(fnIn.topic, fnIn.position),
                 r2 |-> device_name_from_topic_and_position(fnIn.topic2, fnIn.position)]
    /\ UNCHANGED <<sessionVars, fnIn>>

EvalDerive ==
    /\ fnIn.kind = "derive"
    /\ fnOut = NoOutput
    /\ fnOut' = [fn |-> "topic_template",
                 position |-> device_position_in_topic(fnIn.opts, fnIn.dat),
                 r1 |-> topic_template(fnIn.opts, fnIn.dat),
                 r2 |-> Returned(configured_topic(fnIn.opts, fnIn.dat))]
    /\ UNCHANGED <<sessionVars, fnIn>>

EvalSelfUpdate ==
    /\ fnIn.kind = "migrate"
    /\ fnOut = NoOutput
    /\ fnOut' = [fn |-> "self_update",
                 position |-> 0,
                 r1 |-> Returned(self_update(fnIn.opts, fnIn.dat, fnIn.name)),
                 r2 |-> Returned(configured_topic(fnIn.opts, fnIn.dat))]
    /\ UNCHANGED <<sessionVars, fnIn>>

\* create_entity_id, then device_name_from_entity_id on its result.
EvalEntityId ==
    /\ fnIn.kind = "entity"
    /\ fnOut = NoOutput
    /\ fnOut' = [fn |-> "create_entity_id",
                 position |-> 0,
                 r1 |-> Returned(create_entity_id(fnIn.name, fnIn.topic)),
                 r2 |-> Returned(device_name_from_entity_id(fnIn.name,
                                     create_entity_id(fnIn.name, fnIn.topic)))]
    /\ UNCHANGED <<sessionVars, fnIn>>

EvalDeviceName ==
    /\ fnIn.kind = "strip"
    /\ fnOut = NoOutput
    /\ fnOut' = [fn |-> "device_name_from_entity_id",
                 position |-> 0,
                 r1 |-> Returned(device_name_from_entity_id(fnIn.name, fnIn.topic)),
                 r2 |-> Returned(<<>>)]
    /\ UNCHANGED <<sessionVars, fnIn>>

NextFn ==
    \/ EvalExtract
    \/ EvalDerive
    \/ EvalSelfUpdate
    \/ EvalEntityId
    \/ EvalDeviceName

SpecFn == InitFn /\ [][NextFn]_vars

-----------------------------------------------------------------------------
(* Vocabulary of the properties *)

Entries(ev) == {i \in 1..Len(journal) : journal[i].ev = ev}
EntriesFor(ev, dev) == {i \in Entries(ev) : journal[i].dev = dev}
HandlerRuns(m) == {i \in Entries("process") \cup Entries("raise") : journal[i].msg = m}
SubscribeEntries ==
    Entries("subscribing") \cup Entries("subscribe_done")
        \cup Entries("subscribe_critical") \cup Entries("subscribe_raise")

\* Segments read off the '/' characters of the string itself.
Slashes(s) == {k \in 1..Len(s) : s[k] = "/"}
NumSegments(s) == Cardinality(Slashes(s)) + 1
\* Index of the n-th '/' (n >= 1); 0 before the string, Len + 1 after it.
SlashAt(s, n) ==
    IF n = 0 THEN 0
    ELSE IF n > Cardinality(Slashes(s)) THEN Len(s) + 1
    ELSE CHOOSE k \in Slashes(s) : Cardinality({j \in Slashes(s) : j < k}) = n - 1
\* Segment i, counted from 0, of a string with more than i segments.
SegmentAt(s, i) == SubSeq(s, SlashAt(s, i) + 1, SlashAt(s, i + 1) - 1)
MacroSegments(s) == {i \in 0..(NumSegments(s) - 1) : SegmentAt(s, i) = DEVICE_MACRO}

-----------------------------------------------------------------------------
(* C1 *)

\* C1: a sensor created by a handler run is announced to async_add_entities
\* before the message of that run is forwarded to it, and no process_message
\* of a sensor is journalled before the announce of that sensor.
C1_AnnounceBeforeForward ==
    /\ \A i \in Entries("process") :
          \E j \in Entries("announce") : j < i /\ journal[j].sensor = journal[i].sensor
    /\ \A i \in Entries("new_device") :
          /\ i + 2 <= Len(journal)
          /\ journal[i + 1].ev = "announce"
          /\ journal[i + 1].sensor = journal[i].sensor
          /\ journal[i + 2].ev = "process"
          /\ journal[i + 2].sensor = journal[i].sensor
          /\ journal[i + 2].msg = journal[i + 1].msg

\* A first message for a device has been handled.
C1_Witness ==
    \E i \in Entries("new_device") :
        i + 2 <= Len(journal) /\ journal[i + 2].ev = "process"

(* C2 *)

\* C2: every device identity that has a sensor was announced exactly once,
\* whatever the number of messages and of subscribe calls, and nothing else
\* was announced.
C2_AnnouncedExactlyOnce ==
    /\ \A d \in DOMAIN __sensors : Cardinality(EntriesFor("announce", d)) = 1
    /\ \A i \in Entries("announce") : journal[i].dev \in DOMAIN __sensors

\* Two messages for the same device were forwarded after a resubscription.
C2_Witness ==
    \E i, j \in Entries("process") :
        /\ journal[i].dev = journal[j].dev
        /\ journal[i].msg # journal[j].msg
        /\ Cardinality(Entries("subscribe_done")) >= 2

(* C3 *)

\* The registry holds one sensor per identity seen, each with its own handle,
\* and every forward went to the handle the registry holds.
C3_RegistryState ==
    /\ \A d \in DOMAIN __sensors :
          /\ __sensors[d].name = d
          /\ Cardinality(EntriesFor("new_device", d)) = 1
          /\ \A e \in DOMAIN __sensors : __sensors[d].id = __sensors[e].id => d = e
    /\ Cardinality(DOMAIN __sensors) = created
    /\ \A i \in Entries("process") :
          /\ journal[i].dev \in DOMAIN __sensors
          /\ __sensors[journal[i].dev].id = journal[i].sensor

\* No step removes or replaces a registry entry.
C3_RegistryStep ==
    \A d \in DOMAIN __sensors : d \in DOMAIN __sensors' /\ __sensors'[d] = __sensors[d]

\* C3: get_sensor is idempotent and the registry only grows: an identity gets
\* a new handle on its first call and that same handle on every later one, N
\* identities hold N distinct handles, no step removes or replaces an entry.
C3_IdempotentGrowOnly == []C3_RegistryState /\ [][C3_RegistryStep]_vars

\* Two identities hold sensors, one of them was looked up again after a
\* migration.
C3_Witness ==
    /\ Cardinality(DOMAIN __sensors) >= 2
    /\ ~_updating
    /\ \E i, j \in Entries("process") :
          i < j /\ journal[i].dev = journal[j].dev /\ journal[i].msg # journal[j].msg

(* C4 *)

\* C4: extraction never raises, so every run of the handler forwards its
\* message to a sensor (that of "unknown_device" when the topic is short) and
\* no message is dropped.
C4_NoMessageDropped ==
    /\ Entries("raise") = {}
    /\ \A m \in 1..published : \E i \in Entries("process") : journal[i].msg = m

(* C5 *)

\* C5: for a raw topic with at least i+1 segments the extractor returns the
\* literal segment i, so two raw topics with the same segment i give the same
\* device identity.
C5_ExtractsSegment ==
    fnOut.fn = "device_name_from_topic_and_position" =>
        LET i == fnIn.position
            long1 == NumSegments(fnIn.topic) >= i + 1
            long2 == NumSegments(fnIn.topic2) >= i + 1
        IN  /\ long1 => fnOut.r1 = Returned(SegmentAt(fnIn.topic, i))
            /\ long2 => fnOut.r2 = Returned(SegmentAt(fnIn.topic2, i))
            /\ (long1 /\ long2 /\ SegmentAt(fnIn.topic, i) = SegmentAt(fnIn.topic2, i))
                  => fnOut.r1 = fnOut.r2

\* Two different topics with the same segment at a position past the first.
C5_Witness ==
    /\ fnOut.fn = "device_name_from_topic_and_position"
    /\ fnIn.position >= 1
    /\ fnIn.topic # fnIn.topic2
    /\ NumSegments(fnIn.topic) >= fnIn.position + 1
    /\ NumSegments(fnIn.topic2) >= fnIn.position + 1
    /\ SegmentAt(fnIn.topic, fnIn.position) = SegmentAt(fnIn.topic2, fnIn.position)
    /\ SegmentAt(fnIn.topic, fnIn.position) # <<>>

(* C6 *)

\* C6: when the first segment equal to the placeholder is segment i, the
\* position is i and the wildcard topic is the template with segment i
\* replaced by '+', the other segments and the segment count unchanged.
C6_DerivesIndexAndWildcard ==
    (fnOut.fn = "topic_template" /\ MacroSegments(fnOut.r2.value) # {}) =>
        LET tpl == fnOut.r2.value
            i == CHOOSE k \in MacroSegments(tpl) : \A j \in MacroSegments(tpl) : k <= j
        IN  /\ fnOut.position = i
            /\ fnOut.r1.exc = "none"
            /\ NumSegments(fnOut.r1.value) = NumSegments(tpl)
            /\ \A k \in 0..(NumSegments(tpl) - 1) :
                  SegmentAt(fnOut.r1.value, k) =
                      IF k = i THEN <<"+">> ELSE SegmentAt(tpl, k)

\* A template with the placeholder after its first segment and another
\* segment behind it.
C6_Witness ==
    /\ fnOut.fn = "topic_template"
    /\ MacroSegments(fnOut.r2.value) # {}
    /\ fnOut.position >= 1
    /\ NumSegments(fnOut.r2.value) >= fnOut.position + 2

(* C7 *)

\* C7 as stated: without a placeholder segment the position is 0 and the
\* wildcard topic is the template with segment 0 replaced by '+'.
C7_FallsBackToZero ==
    (fnOut.fn = "topic_template" /\ MacroSegments(fnOut.r2.value) = {}) =>
        LET tpl == fnOut.r2.value
        IN  /\ fnOut.position = 0
            /\ fnOut.r1.exc = "none"
            /\ NumSegments(fnOut.r1.value) = NumSegments(tpl)
            /\ \A k \in 0..(NumSegments(tpl) - 1) :
                  SegmentAt(fnOut.r1.value, k) =
                      IF k = 0 THEN <<"+">> ELSE SegmentAt(tpl, k)

\* C7 as amended: without a placeholder segment the position is the number
\* of segments, one past the last, and topic_template raises IndexError.
C7_PositionPastTheEnd ==
    (fnOut.fn = "topic_template" /\ MacroSegments(fnOut.r2.value) = {}) =>
        /\ fnOut.position = NumSegments(fnOut.r2.value)
        /\ fnOut.r1 = Raised("IndexError")

\* A template of two segments, none of them the placeholder.
C7_Witness ==
    /\ fnOut.fn = "topic_template"
    /\ MacroSegments(fnOut.r2.value) = {}
    /\ NumSegments(fnOut.r2.value) = 2

(* C8 *)

\* C8: a resubscription releases the prior subscription, so at most one
\* subscription of the session is live and each published message is handled
\* once.
C8_OneLiveSubscription ==
    /\ Cardinality(broker) <= 1
    /\ \A m \in 1..published : Cardinality(HandlerRuns(m)) <= 1

(* C9 *)

\* C9: after a rejected subscribe request the state is None and no message
\* is handled until subscribe_root_topic is called again: the last subscribe
\* entry before a handler run is never the critical one.
C9_NothingHandledAfterRejection ==
    /\ \A i \in Entries("subscribe_critical") :
          (\A j \in SubscribeEntries : j <= i) => _subscription_state = 0
    /\ \A i \in Entries("process") \cup Entries("raise") :
          \A j \in Entries("subscribe_critical") :
              j < i => \E k \in SubscribeEntries : j < k /\ k < i

(* C10 *)

\* C10: the migrated topic is root_topic + "/" + placeholder when root_topic
\* is present, else the legacy topic with its last segment replaced by the
\* placeholder (a topic of one segment included), else the configured topic.
C10_MigratedTopic ==
    fnOut.fn = "self_update" =>
        LET old == fnIn.opts
            new_topic == fnOut.r1.value["topic_template"]
        IN  IF "root_topic" \in DOMAIN old
            THEN new_topic = old["root_topic"] \o <<"/">> \o DEVICE_MACRO
            ELSE IF "topic" \in DOMAIN old
            THEN LET t == old["topic"]
                     n == NumSegments(t)
                 IN  /\ NumSegments(new_topic) = n
                     /\ \A k \in 0..(n - 1) :
                           SegmentAt(new_topic, k) =
                               IF k = n - 1 THEN DEVICE_MACRO ELSE SegmentAt(t, k)
            ELSE new_topic = fnOut.r2.value

(* C11 *)

\* C11: migration keeps name and qos each on its own: the new name is the
\* old name when present and the session's name otherwise, the new qos is the
\* old qos when present and 0 otherwise.
C11_NameAndQosKeptIndependently ==
    fnOut.fn = "self_update" =>
        LET old == fnIn.opts
            new == fnOut.r1.value
        IN  /\ new["name"] = IF "name" \in DOMAIN old THEN old["name"] ELSE fnIn.name
            /\ new["qos"] = IF "qos" \in DOMAIN old THEN old["qos"] ELSE 0

(* C12 *)

\* C12 as stated: the flag is up exactly when topic_template is absent from
\* the configuration, options and data together.  Until self_update runs the
\* configuration is the one the session was built with.
C12_FlagIffAbsentFromConfiguration ==
    _updating <=> (get_from_config(options, data, "topic_template").exc # "none")

\* The flag is up exactly when the options hold no topic_template.
C12_FlagState == _updating <=> ("topic_template" \notin DOMAIN options)

\* C12 as amended: the flag is up at construction exactly when topic_template
\* is absent from the options (whatever data holds), it is down once
\* self_update has run, and no step raises it again.
C12_FlagIffAbsentFromOptions == []C12_FlagState /\ [][~_updating => ~_updating']_vars

\* A session built with the template in data only has migrated, and has
\* subscribed and handled a message as well.
C12_Witness ==
    /\ ~_updating
    /\ "topic_template" \in DOMAIN data
    /\ "name" \in DOMAIN options
    /\ Entries("subscribe_done") # {}
    /\ Entries("process") # {}

(* C13 *)

\* C13: every run of self_update leaves a topic_template in the persisted
\* options, so a session built from them starts with the flag down.
C13_MigrationPersistsTemplate ==
    [][(options' # options \/ _updating' # _updating) =>
          /\ "topic_template" \in DOMAIN options'
          /\ ~updating_at_start(options', data')
          /\ ~_updating']_vars

\* Options migrated from a legacy topic, from a root_topic or from neither.
C13_Witness ==
    /\ ~_updating
    /\ "name" \in DOMAIN options
    /\ "root_topic" \notin DOMAIN options
    /\ "topic" \notin DOMAIN options
    /\ options["topic_template"] = <<"/">> \o DEVICE_MACRO

(* C14 *)

\* C14: under every interleaving of deliveries, several callbacks running for
\* the same first message included, one sensor at most is constructed and
\* announced for a device identity, and all forwards for it reach that one.
C14_OneSensorPerIdentity ==
    /\ \A i, j \in Entries("new_device") : journal[i].dev = journal[j].dev => i = j
    /\ \A i, j \in Entries("announce") : journal[i].dev = journal[j].dev => i = j
    /\ \A i, j \in Entries("process") :
          journal[i].dev = journal[j].dev => journal[i].sensor = journal[j].sensor
    /\ created = Cardinality({journal[i].dev : i \in Entries("process")})

\* Two callbacks ran for the message that brought a new device.
C14_Witness ==
    \E n \in Entries("new_device") : \E i, j \in Entries("process") :
        /\ i # j
        /\ journal[i].msg = journal[j].msg
        /\ journal[i].sub # journal[j].sub
        /\ journal[i].dev = journal[n].dev
        /\ journal[j].dev = journal[n].dev
        /\ journal[n + 1].msg = journal[i].msg

(* C15 *)

\* C15: with name, topic_template or qos absent from options and from data,
\* construction and subscribe_root_topic go on with the default (default
\* name, qos 0) and no KeyError leaves them.
C15_DefaultsForMissingKeys ==
    /\ ("name" \notin DOMAIN options \cup DOMAIN data) => _name = SleepAsAndroid
    /\ \A i \in Entries("subscribe_raise") : journal[i].info # "KeyError"
    /\ (pc = "awaiting" /\ "qos" \notin DOMAIN options \cup DOMAIN data)
          => request.qos = 0

(* C16 *)

\* C16: a NoEntitySpecifiedError of process_message does not leave the
\* handler; the sensor stays in the registry and later messages for the device
\* are forwarded to that sensor without another announce.
C16_EntityErrorSwallowed ==
    /\ \A i \in Entries("raise") : journal[i].info # "NoEntitySpecifiedError"
    /\ \A i \in Entries("process") :
          journal[i].info = "NoEntitySpecifiedError" =>
              /\ journal[i].dev \in DOMAIN __sensors
              /\ __sensors[journal[i].dev].id = journal[i].sensor
              /\ \A j \in Entries("process") \cup Entries("announce")
                          \cup Entries("new_device") :
                    (j > i /\ journal[j].dev = journal[i].dev) =>
                        /\ journal[j].ev = "process"
                        /\ journal[j].sensor = journal[i].sensor

\* A forward failed with the error and a later message reached the device.
C16_Witness ==
    \E i, j \in Entries("process") :
        /\ i < j
        /\ journal[i].info = "NoEntitySpecifiedError"
        /\ journal[i].dev = journal[j].dev
        /\ journal[i].msg # journal[j].msg

(* C17 *)

StartsWith(s, p) == Len(p) <= Len(s) /\ SubSeq(s, 1, Len(p)) = p
Contains(s, p) == \E i \in 0..(Len(s) - Len(p)) : SubSeq(s, i + 1, i + Len(p)) = p

\* C17: for a device identity that does not contain name + "_",
\* device_name_from_entity_id(create_entity_id(device)) is the device.
C17_EntityIdRoundTrip ==
    (fnOut.fn = "create_entity_id" /\ ~Contains(fnIn.topic, fnIn.name \o <<"_">>)) =>
        /\ StartsWith(fnOut.r1.value, fnIn.name)
        /\ Len(fnOut.r1.value) = Len(fnIn.name) + 1 + Len(fnIn.topic)
        /\ fnOut.r2.value = fnIn.topic

\* A device name that holds "_" followed by the name, but not name + "_".
C17_Witness ==
    /\ fnOut.fn = "create_entity_id"
    /\ ~Contains(fnIn.topic, fnIn.name \o <<"_">>)
    /\ fnIn.name = <<"n">>
    /\ Contains(fnIn.topic, <<"_", "n">>)
    /\ fnOut.r2.value = fnIn.topic

(* C18 *)

\* C18: device_name_from_entity_id removes name + "_" as a prefix only: an
\* entity id that starts with it loses that prefix, any other entity id comes
\* back unchanged, also when name + "_" occurs further inside.
C18_StripsPrefixOnly ==
    fnOut.fn = "device_name_from_entity_id" =>
        LET e == fnIn.topic
            p == fnIn.name \o <<"_">>
        IN  fnOut.r1.value = IF StartsWith(e, p)
                             THEN SubSeq(e, Len(p) + 1, Len(e))
                             ELSE e

(* C19 *)

\* The segment of a wildcard topic that holds '+'.
WildcardPosition(w) ==
    CHOOSE k \in 0..(NumSegments(w) - 1) : SegmentAt(w, k) = <<"+">>

\* C19: whenever a message is handled, the position read from the configured
\* template is the position of '+' in the wildcard topic of the subscription
\* that delivered it, and both have the same number of segments.
C19_PositionAgreesWithSubscription ==
    [][published' # published =>
          \A i \in (Len(journal) + 1)..Len(journal') :
              \A s \in broker :
                  s.id = journal'[i].sub =>
                      /\ device_position_in_topic(options, data) = WildcardPosition(s.topic)
                      /\ NumSegments(configured_topic(options, data)) = NumSegments(s.topic)]_vars

(* C20 *)

\* C20: the topic_template self_update writes has the placeholder
\* exactly once as a segment.
C20_ExactlyOnePlaceholder ==
    fnOut.fn = "self_update" =>
        Cardinality(MacroSegments(fnOut.r1.value["topic_template"])) = 1

====
